---------------------------- MODULE Spec2Model ----------------------------
(***************************************************************************)
(* Control plane of the career-assistant agent: the tool-call governor     *)
(* (agent/middleware/tool_limit.py), shared by the turns of every thread   *)
(* the built graph serves (agent/agent.py), the history compactor          *)
(* (agent/middleware/summarization.py), and the life cycle of the          *)
(* checkpointer (agent/persistence/checkpointer.py) under the process's    *)
(* startup and shutdown (agent/main.py).                                   *)
(***************************************************************************)
EXTENDS Integers, Sequences, FiniteSets, TLC

(***************************************************************************)
(* Bounds of the model.                                                    *)
(***************************************************************************)
\* largest max_calls a governor is constructed with
MaxLimit == 3
\* largest number of messages in one thread's history
MaxMsgs == 5
\* largest number of tool-call requests in one assistant message
MaxPerTurn == 2

\* largest number of messages in a history handed to the compactor
MaxTrimMsgs == 5
\* largest max_tokens a compactor is constructed with
MaxBudget == 4
\* largest keep_recent_messages a compactor is constructed with
MaxKeep == 3

\* largest number of init_checkpointer calls made in one process
MaxCallers == 2
\* largest number of turns the served agent accepts
MaxTurns == 1

\* rows of table jobs
MaxJobs == 1

\* thread ids (runtime.config['configurable']['thread_id'])
Threads == {"A", "B"}
\* self._current_thread = None
NoThread == "None"
\* values of warn_at_percentage a governor is constructed with
WarnPercentages == {80, 100}
\* values of len(msg.content) of the messages handed to the compactor
ContentSizes == {3, 9}
\* len(str(tc['args'])) of a tool call without arguments: '{}'
EmptyArgs == 2

VARIABLES
    \* ToolCallLimitMiddleware fields
    max_calls, warn_at_percentage, current_thread, call_count, warned,
    \* durable message history of each thread (state['messages'])
    history,
    \* position of each thread's turn in the agent loop
    pc,
    \* tool calls of the last assistant message not dispatched yet
    pending,
    \* what the hook call that led to this state did (NoOp: no hook call did)
    last,
    \* per thread: warnings printed during its hook calls
    warnings,
    \* SummarizationMiddleware fields
    max_tokens, keep_system_message, keep_recent_messages,
    \* state['messages'] of the run the compactor serves
    messages,
    \* what the compactor's before_model returned for these messages
    sm_update,
    \* os.environ has DATABASE_URL
    database_url,
    \* the init_checkpointer calls of the process overlap at their awaits
    concurrent,
    \* module globals _checkpointer, _context_manager (0: None, n: the one
    \* made by call n) and _setup_done
    checkpointer, context_manager, setup_done,
    \* per call of init_checkpointer: the connection context it made
    ctx,
    \* per call of init_checkpointer: where it stands and what it did
    call,
    \* main.py: position of the process, the checkpointer build_agent got,
    \* the turns the served agent accepted
    main_pc, agent_checkpointer, turns,
    \* what close_checkpointer did
    close_log,
    \* the user's row of table user_profiles and the status of the user's
    \* rows of table saved_jobs
    user_profiles, saved_jobs,
    \* how many onboarding steps have been written in order since the row was
    \* empty (-1: written out of order)
    written,
    \* what the last tool call returned
    tool_result

gvars == <<max_calls, warn_at_percentage, current_thread, call_count, warned,
           history, pc, pending, last, warnings>>

tvars == <<max_tokens, keep_system_message, keep_recent_messages, messages,
           sm_update>>

cvars == <<database_url, concurrent, checkpointer, context_manager, setup_done,
           ctx, call, main_pc, agent_checkpointer, turns, close_log>>

ovars == <<user_profiles, saved_jobs, written, tool_result>>

vars == <<gvars, tvars, cvars, ovars>>

(***************************************************************************)
(* Messages.  content is len(msg.content); a tool call carries its id and  *)
(* len(str(args)).                                                         *)
(***************************************************************************)
HumanMessage(c) ==
    [type |-> "human", content |-> c, tool_calls |-> <<>>, tool_call_id |-> 0]

SystemMessage(c) ==
    [type |-> "system", content |-> c, tool_calls |-> <<>>, tool_call_id |-> 0]

AIMessage(c, tcs) ==
    [type |-> "ai", content |-> c, tool_calls |-> tcs, tool_call_id |-> 0]

ToolMessage(c, id) ==
    [type |-> "tool", content |-> c, tool_calls |-> <<>>, tool_call_id |-> id]

\* _count_tool_calls that finds no tool call in any message
count_tool_calls_none(msgs) == 0

RECURSIVE count_tool_calls(_)
count_tool_calls(msgs) ==
    IF msgs = <<>> THEN 0
    ELSE Len(Head(msgs).tool_calls) + count_tool_calls(Tail(msgs))

(***************************************************************************)
(* ToolCallLimitMiddleware                                                 *)
(***************************************************************************)
\* int(self.max_calls * self.warn_at_percentage / 100)
warn_threshold == (max_calls * warn_at_percentage) \div 100

Gov == [current_thread |-> current_thread, call_count |-> call_count,
        warned |-> warned]

\* the fields __init__ sets
FreshGov == [current_thread |-> NoThread, call_count |-> 0, warned |-> FALSE]

\* _check_limit with the hard limit tested by > instead of >=
check_limit_gt(g, thread_id, msgs) ==
    LET g1 == IF thread_id # g.current_thread
              THEN [current_thread |-> thread_id, call_count |-> 0,
                    warned |-> FALSE]
              ELSE g
        g2 == [g1 EXCEPT !.call_count = count_tool_calls(msgs)]
        warn == g2.call_count >= warn_threshold /\ ~g2.warned
        g3 == [g2 EXCEPT !.warned = g2.warned \/ warn]
    IN  [gov |-> g3, warning |-> warn, raised |-> g3.call_count > max_calls]

\* _check_limit that keeps the warned flag when the thread changes
check_limit_keep_warned(g, thread_id, msgs) ==
    LET g1 == IF thread_id # g.current_thread
              THEN [current_thread |-> thread_id, call_count |-> 0,
                    warned |-> g.warned]
              ELSE g
        g2 == [g1 EXCEPT !.call_count = count_tool_calls(msgs)]
        warn == g2.call_count >= warn_threshold /\ ~g2.warned
        g3 == [g2 EXCEPT !.warned = g2.warned \/ warn]
    IN  [gov |-> g3, warning |-> warn, raised |-> g3.call_count >= max_calls]

\* _check_limit that recounts the history only when the thread changes
check_limit_stale(g, thread_id, msgs) ==
    LET g1 == IF thread_id # g.current_thread
              THEN [current_thread |-> thread_id,
                    call_count |-> count_tool_calls(msgs),
                    warned |-> FALSE]
              ELSE g
        warn == g1.call_count >= warn_threshold /\ ~g1.warned
        g3 == [g1 EXCEPT !.warned = g1.warned \/ warn]
    IN  [gov |-> g3, warning |-> warn, raised |-> g3.call_count >= max_calls]

\* _check_limit on governor fields g: the fields after it, whether the
\* warning was printed and whether MaxToolCallsExceeded was raised
check_limit(g, thread_id, msgs) ==
    LET g1 == IF thread_id # g.current_thread
              THEN [current_thread |-> thread_id, call_count |-> 0,
                    warned |-> FALSE]
              ELSE g
        g2 == [g1 EXCEPT !.call_count = count_tool_calls(msgs)]
        warn == g2.call_count >= warn_threshold /\ ~g2.warned
        g3 == [g2 EXCEPT !.warned = g2.warned \/ warn]
    IN  [gov |-> g3, warning |-> warn, raised |-> g3.call_count >= max_calls]

\* wrap_tool_call with the limit test of a handler that is still let through
\* when the incremented counter equals max_calls
wrap_check_gt(g) ==
    LET g1 == [g EXCEPT !.call_count = g.call_count + 1]
        raise == g1.call_count > max_calls
        warn == ~raise /\ g1.call_count >= warn_threshold /\ ~g1.warned
        g2 == [g1 EXCEPT !.warned = g1.warned \/ warn]
    IN  [gov |-> g2, warning |-> warn, raised |-> raise]

\* wrap_tool_call up to the handler: the limit check comes
\* before the warning check, and a raise skips the warning and the handler
wrap_check(g) ==
    LET g1 == [g EXCEPT !.call_count = g.call_count + 1]
        raise == g1.call_count >= max_calls
        warn == ~raise /\ g1.call_count >= warn_threshold /\ ~g1.warned
        g2 == [g1 EXCEPT !.warned = g1.warned \/ warn]
    IN  [gov |-> g2, warning |-> warn, raised |-> raise]

\* awrap_tool_call up to the awaited handler
awrap_check(g) ==
    LET g1 == [g EXCEPT !.call_count = g.call_count + 1]
        raise == g1.call_count >= max_calls
        warn == ~raise /\ g1.call_count >= warn_threshold /\ ~g1.warned
        g2 == [g1 EXCEPT !.warned = g1.warned \/ warn]
    IN  [gov |-> g2, warning |-> warn, raised |-> raise]

\* SQL NULL in a text column and in an integer column
NULL == "NULL"

NullInt == -1

\* the jobs of table jobs
Jobs == 1..MaxJobs

\* no row of user_profiles for the user: the columns get_profile_status reads
NoRow == [user_id |-> "none", role_preference |-> NULL, trinity |-> NULL,
          experience_years |-> NullInt, location |-> NULL,
          day_rate_min |-> NullInt, onboarding_completed |-> FALSE]

\* no tool call made: the envelope of a tool call is the tool, whether it was
\* given a user_id, success, current_step, onboarding_completed, count (-1:
\* not in the envelope); failed tells that the store operation of the call
\* raised or timed out, wanted is the row the call was to leave
NoTool == [tool |-> "none", user_id |-> FALSE, success |-> FALSE,
           failed |-> FALSE, current_step |-> -1,
           onboarding_completed |-> FALSE, count |-> -1, wanted |-> NoRow]

\* the init_checkpointer and get_checkpointer calls of a process, in the
\* order they start
Calls == 1..MaxCallers

\* a call not made yet: its position, the function called, whether it made a
\* connection context, the saver it ran setup() on and how setup() ended,
\* the value it returned
IdleCall == [pc |-> "idle", via |-> "none", created |-> FALSE, saver |-> 0,
             setup |-> "none", result |-> 0]

\* close_checkpointer not called yet: the context it exited, how __aexit__
\* ended, whether close_checkpointer raised
NoClose == [target |-> 0, aexit |-> "none", raised |-> FALSE]

\* the before_model results: None, and an update of llm_input_messages alone
None == [update |-> FALSE, llm_input_messages |-> <<>>]

\* an update that replaces the persisted messages with the view
Update_persisted(view) == [update |-> TRUE, messages |-> view]

Update(view) == [update |-> TRUE, llm_input_messages |-> view]

\* last: the hook, its thread, the governor's thread and warned flag when it
\* was called, whether it raised, whether it printed the warning
NoOp == [op |-> "none", thread |-> NoThread, prev |-> NoThread,
         prev_warned |-> FALSE, raised |-> FALSE, warning |-> FALSE]

GInit ==
    /\ max_calls \in 1..MaxLimit
    /\ warn_at_percentage \in WarnPercentages
    /\ current_thread = NoThread
    /\ call_count = 0
    /\ warned = FALSE
    /\ history = [t \in Threads |-> <<>>]
    /\ pc = [t \in Threads |-> "idle"]
    /\ pending = [t \in Threads |-> <<>>]
    /\ last = NoOp
    /\ warnings = [t \in Threads |-> 0]
    \* the built graph installs no compactor
    /\ max_tokens = 0
    /\ keep_system_message = TRUE
    /\ keep_recent_messages = 0
    /\ messages = <<>>
    /\ sm_update = None
    \* the checkpointer of a process that has not started
    /\ database_url = TRUE
    /\ concurrent = FALSE
    /\ checkpointer = 0
    /\ context_manager = 0
    /\ setup_done = FALSE
    /\ ctx = [c \in Calls |-> "none"]
    /\ call = [c \in Calls |-> IdleCall]
    /\ main_pc = "load"
    /\ agent_checkpointer = 0
    /\ turns = 0
    /\ close_log = NoClose
    \* no tool has been called
    /\ user_profiles = NoRow
    /\ saved_jobs = [j \in Jobs |-> "none"]
    /\ written = 0
    /\ tool_result = NoTool

\* a human message arrives for thread t and its turn starts
StartTurn(t) ==
    /\ pc[t] \in {"idle", "error"}
    /\ Len(history[t]) < MaxMsgs
    /\ history' = [history EXCEPT ![t] = Append(@, HumanMessage(4))]
    /\ pc' = [pc EXCEPT ![t] = "before_model"]
    /\ pending' = [pending EXCEPT ![t] = <<>>]
    /\ last' = NoOp
    /\ UNCHANGED <<max_calls, warn_at_percentage, current_thread, call_count,
                   warned, warnings>>
    /\ UNCHANGED <<tvars, cvars, ovars>>

\* before_model / abefore_model of thread t's turn
before_model(t) ==
    /\ pc[t] = "before_model"
    /\ LET r == check_limit(Gov, t, history[t]) IN
        /\ current_thread' = r.gov.current_thread
        /\ call_count' = r.gov.call_count
        /\ warned' = r.gov.warned
        /\ warnings' = [warnings EXCEPT ![t] = @ + (IF r.warning THEN 1 ELSE 0)]
        /\ pc' = [pc EXCEPT ![t] = IF r.raised THEN "error" ELSE "model"]
        /\ last' = [op |-> "before_model", thread |-> t, prev |-> current_thread,
                    prev_warned |-> warned,
                    raised |-> r.raised, warning |-> r.warning]
    /\ UNCHANGED <<max_calls, warn_at_percentage, history, pending>>
    /\ UNCHANGED <<tvars, cvars, ovars>>

\* the model answers thread t with an assistant message carrying n tool calls
ModelCall(t, n) ==
    /\ pc[t] = "model"
    /\ Len(history[t]) + 1 + n <= MaxMsgs
    /\ LET base == count_tool_calls(history[t])
           tcs == [k \in 1..n |-> [id |-> base + k, args |-> EmptyArgs]]
       IN  /\ history' = [history EXCEPT ![t] = Append(@, AIMessage(4, tcs))]
           /\ pending' = [pending EXCEPT ![t] = tcs]
    /\ pc' = [pc EXCEPT ![t] = "after_model"]
    /\ last' = NoOp
    /\ UNCHANGED <<max_calls, warn_at_percentage, current_thread, call_count,
                   warned, warnings>>
    /\ UNCHANGED <<tvars, cvars, ovars>>

\* after_model / aafter_model of thread t's turn
after_model(t) ==
    /\ pc[t] = "after_model"
    /\ call_count' = count_tool_calls(history[t])
    /\ pc' = [pc EXCEPT ![t] = IF pending[t] = <<>> THEN "idle" ELSE "tools"]
    /\ last' = [op |-> "after_model", thread |-> t, prev |-> current_thread,
                    prev_warned |-> warned,
                raised |-> FALSE, warning |-> FALSE]
    /\ UNCHANGED <<max_calls, warn_at_percentage, current_thread, warned,
                   history, pending, warnings>>
    /\ UNCHANGED <<tvars, cvars, ovars>>

\* wrap_tool_call / awrap_tool_call for the next tool call of thread t's turn,
\* the handler included
wrap_tool_call(t) ==
    /\ pc[t] = "tools"
    /\ pending[t] # <<>>
    /\ \E is_async \in BOOLEAN :
       LET r == IF is_async THEN awrap_check(Gov) ELSE wrap_check(Gov) IN
        /\ call_count' = r.gov.call_count
        /\ warned' = r.gov.warned
        /\ warnings' = [warnings EXCEPT ![t] = @ + (IF r.warning THEN 1 ELSE 0)]
        /\ last' = [op |-> "wrap_tool_call", thread |-> t, prev |-> current_thread,
                    prev_warned |-> warned,
                    raised |-> r.raised, warning |-> r.warning]
        /\ IF r.raised
           THEN /\ pc' = [pc EXCEPT ![t] = "error"]
                /\ pending' = [pending EXCEPT ![t] = <<>>]
                /\ UNCHANGED history
           ELSE /\ history' = [history EXCEPT ![t] =
                                  Append(@, ToolMessage(4, Head(pending[t]).id))]
                /\ pending' = [pending EXCEPT ![t] = Tail(@)]
                /\ pc' = [pc EXCEPT ![t] =
                             IF Tail(pending[t]) = <<>> THEN "before_model"
                             ELSE "tools"]
    /\ UNCHANGED <<max_calls, warn_at_percentage, current_thread>>
    /\ UNCHANGED <<tvars, cvars, ovars>>

\* the process restarts: build_agent constructs a new governor, the turns in
\* flight are gone, the histories are in the checkpoint store
Restart ==
    /\ Gov # FreshGov
    /\ current_thread' = FreshGov.current_thread
    /\ call_count' = FreshGov.call_count
    /\ warned' = FreshGov.warned
    /\ pc' = [t \in Threads |-> "idle"]
    /\ pending' = [t \in Threads |-> <<>>]
    /\ last' = [NoOp EXCEPT !.op = "restart"]
    /\ UNCHANGED <<max_calls, warn_at_percentage, history, warnings>>
    /\ UNCHANGED <<tvars, cvars, ovars>>

(***************************************************************************)
(* SummarizationMiddleware                                                 *)
(***************************************************************************)
RECURSIVE total_chars(_)
total_chars(msgs) ==
    IF msgs = <<>> THEN 0
    ELSE LET m == Head(msgs)
             RECURSIVE args_chars(_)
             args_chars(tcs) ==
                 IF tcs = <<>> THEN 0
                 ELSE Head(tcs).args + args_chars(Tail(tcs))
         IN  m.content + args_chars(m.tool_calls) + total_chars(Tail(msgs))

count_tokens_approximately(msgs) == total_chars(msgs) \div 4

\* msgs[-k:] for 0 < k <= len(msgs), and the empty list for k = 0
LastK(msgs, k) == SubSeq(msgs, Len(msgs) - k + 1, Len(msgs))

Max(S) == CHOOSE x \in S : \A y \in S : y <= x

\* langchain's trim_messages(msgs, strategy="last", token_counter=
\* count_tokens_approximately, max_tokens=budget, start_on="human",
\* end_on=("human", "tool"), include_system=False): drop the messages after
\* the last human or tool message, keep the longest suffix within the budget,
\* then drop from its front up to the first human message
trim_messages(msgs, budget) ==
    LET e == Max({0} \cup {j \in 1..Len(msgs) :
                              msgs[j].type \in {"human", "tool"}})
        m1 == SubSeq(msgs, 1, e)
        k == Max({0} \cup {j \in 1..Len(m1) :
                              count_tokens_approximately(LastK(m1, j)) <= budget})
        k2 == Max({0} \cup {j \in 1..k : m1[Len(m1) - j + 1].type = "human"})
    IN  LastK(m1, k2)

\* _trim_messages with the recency floor one message short
\* (remaining_messages[-(keep_recent_messages - 1):])
trim_floor_short(msgs) ==
    IF msgs = <<>> THEN msgs
    ELSE IF count_tokens_approximately(msgs) <= max_tokens THEN msgs
    ELSE LET has_system == keep_system_message /\ msgs[1].type = "system"
             system_message == IF has_system THEN <<msgs[1]>> ELSE <<>>
             remaining_messages == IF has_system THEN Tail(msgs) ELSE msgs
             system_tokens == IF has_system
                              THEN count_tokens_approximately(system_message)
                              ELSE 0
             available_tokens == max_tokens - system_tokens
             trimmed == trim_messages(remaining_messages, available_tokens)
             kept == IF Len(trimmed) < keep_recent_messages
                        /\ Len(remaining_messages) >= keep_recent_messages
                     THEN LastK(remaining_messages, keep_recent_messages - 1)
                     ELSE trimmed
         IN  system_message \o kept

\* _trim_messages that hands trim_messages the whole budget, the cost of the
\* system message not subtracted
trim_full_budget(msgs) ==
    IF msgs = <<>> THEN msgs
    ELSE IF count_tokens_approximately(msgs) <= max_tokens THEN msgs
    ELSE LET has_system == keep_system_message /\ msgs[1].type = "system"
             system_message == IF has_system THEN <<msgs[1]>> ELSE <<>>
             remaining_messages == IF has_system THEN Tail(msgs) ELSE msgs
             trimmed == trim_messages(remaining_messages, max_tokens)
             kept == IF Len(trimmed) < keep_recent_messages
                        /\ Len(remaining_messages) >= keep_recent_messages
                     THEN LastK(remaining_messages, keep_recent_messages)
                     ELSE trimmed
         IN  system_message \o kept

\* _trim_messages
trim(msgs) ==
    IF msgs = <<>> THEN msgs
    ELSE IF count_tokens_approximately(msgs) <= max_tokens THEN msgs
    ELSE LET has_system == keep_system_message /\ msgs[1].type = "system"
             system_message == IF has_system THEN <<msgs[1]>> ELSE <<>>
             remaining_messages == IF has_system THEN Tail(msgs) ELSE msgs
             system_tokens == IF has_system
                              THEN count_tokens_approximately(system_message)
                              ELSE 0
             available_tokens == max_tokens - system_tokens
             trimmed == trim_messages(remaining_messages, available_tokens)
             kept == IF Len(trimmed) < keep_recent_messages
                        /\ Len(remaining_messages) >= keep_recent_messages
                     THEN LastK(remaining_messages, keep_recent_messages)
                     ELSE trimmed
         IN  system_message \o kept

TInit ==
    /\ max_tokens \in 1..MaxBudget
    /\ keep_system_message \in BOOLEAN
    /\ keep_recent_messages \in 0..MaxKeep
    /\ messages = <<>>
    /\ sm_update = None
    \* the governor of a run that dispatches nothing
    /\ max_calls = 1
    /\ warn_at_percentage = 80
    /\ current_thread = NoThread
    /\ call_count = 0
    /\ warned = FALSE
    /\ history = [t \in Threads |-> <<>>]
    /\ pc = [t \in Threads |-> "idle"]
    /\ pending = [t \in Threads |-> <<>>]
    /\ last = NoOp
    /\ warnings = [t \in Threads |-> 0]
    \* the checkpointer of a process that has not started
    /\ database_url = TRUE
    /\ concurrent = FALSE
    /\ checkpointer = 0
    /\ context_manager = 0
    /\ setup_done = FALSE
    /\ ctx = [c \in Calls |-> "none"]
    /\ call = [c \in Calls |-> IdleCall]
    /\ main_pc = "load"
    /\ agent_checkpointer = 0
    /\ turns = 0
    /\ close_log = NoClose
    \* no tool has been called
    /\ user_profiles = NoRow
    /\ saved_jobs = [j \in Jobs |-> "none"]
    /\ written = 0
    /\ tool_result = NoTool

\* ids of the tool calls of msgs that no tool message answers yet, in order
RECURSIVE open_calls(_)
open_calls(msgs) ==
    IF msgs = <<>> THEN <<>>
    ELSE LET m == msgs[Len(msgs)]
             before == open_calls(SubSeq(msgs, 1, Len(msgs) - 1))
         IN  IF m.type = "tool"
             THEN SelectSeq(before, LAMBDA id : id # m.tool_call_id)
             ELSE before \o [i \in 1..Len(m.tool_calls) |-> m.tool_calls[i].id]

\* the run's history grows as the agent loop grows it: a system prompt first,
\* human input when no tool call is open, an assistant message with tool
\* calls, and a tool result for the oldest open call
AddSystem(c) ==
    /\ messages = <<>>
    /\ messages' = <<SystemMessage(c)>>
    /\ sm_update' = None
    /\ UNCHANGED <<max_tokens, keep_system_message, keep_recent_messages>>
    /\ UNCHANGED <<gvars, cvars, ovars>>

AddHuman(c) ==
    /\ Len(messages) < MaxTrimMsgs
    /\ open_calls(messages) = <<>>
    /\ IF messages = <<>> THEN TRUE
       ELSE messages[Len(messages)].type # "human"
    /\ messages' = Append(messages, HumanMessage(c))
    /\ sm_update' = None
    /\ UNCHANGED <<max_tokens, keep_system_message, keep_recent_messages>>
    /\ UNCHANGED <<gvars, cvars, ovars>>

AddAI(c, n) ==
    /\ Len(messages) + n < MaxTrimMsgs
    /\ messages # <<>>
    /\ messages[Len(messages)].type \in {"human", "tool"}
    /\ open_calls(messages) = <<>>
    /\ LET base == count_tool_calls(messages)
           tcs == [k \in 1..n |-> [id |-> base + k, args |-> EmptyArgs]]
       IN  messages' = Append(messages, AIMessage(c, tcs))
    /\ sm_update' = None
    /\ UNCHANGED <<max_tokens, keep_system_message, keep_recent_messages>>
    /\ UNCHANGED <<gvars, cvars, ovars>>

AddTool(c) ==
    /\ open_calls(messages) # <<>>
    /\ messages' = Append(messages, ToolMessage(c, Head(open_calls(messages))))
    /\ sm_update' = None
    /\ UNCHANGED <<max_tokens, keep_system_message, keep_recent_messages>>
    /\ UNCHANGED <<gvars, cvars, ovars>>

\* the histories the agent loop calls before_model with: they end with the
\* human input or with the result of the last tool call of the turn
BeforeModelInput ==
    /\ messages # <<>>
    /\ messages[Len(messages)].type \in {"human", "tool"}
    /\ open_calls(messages) = <<>>

\* SummarizationMiddleware.before_model / abefore_model
sm_before_model ==
    /\ BeforeModelInput
    /\ sm_update' =
          IF messages = <<>> THEN None
          ELSE LET trimmed == trim(messages)
               IN  IF Len(trimmed) < Len(messages) THEN Update(trimmed)
                   ELSE None
    /\ UNCHANGED <<max_tokens, keep_system_message, keep_recent_messages,
                   messages>>
    /\ UNCHANGED <<gvars, cvars, ovars>>

TNext ==
    \/ \E c \in ContentSizes : AddSystem(c)
    \/ \E c \in ContentSizes : AddHuman(c)
    \/ \E c \in ContentSizes, n \in 0..MaxPerTurn : AddAI(c, n)
    \/ \E c \in ContentSizes : AddTool(c)
    \/ sm_before_model

SpecTrim == TInit /\ [][TNext]_vars

GNext ==
    \/ \E t \in Threads : StartTurn(t)
    \/ \E t \in Threads : before_model(t)
    \/ \E t \in Threads, n \in 0..MaxPerTurn : ModelCall(t, n)
    \/ \E t \in Threads : after_model(t)
    \/ \E t \in Threads : wrap_tool_call(t)

Spec == GInit /\ [][GNext]_vars

\* one thread's turns, with process restarts between and during them
RNext ==
    \/ StartTurn("A")
    \/ before_model("A")
    \/ \E n \in 0..MaxPerTurn : ModelCall("A", n)
    \/ after_model("A")
    \/ wrap_tool_call("A")
    \/ Restart

SpecRestart == GInit /\ [][RNext]_vars

\* the steps of a turn of thread A once it has started
\* The middleware list build_agent hands to create_deep_agent, in order.  The
\* package exports the governor alone; the history compactor of
\* summarization.py is not instantiated anywhere.
middleware == <<"ToolCallLimitMiddleware", "CopilotKitMiddleware">>

Installed(name) == \E i \in 1..Len(middleware) : middleware[i] = name

TurnStep ==
    \/ before_model("A")
    \/ \E n \in 0..MaxPerTurn : ModelCall("A", n)
    \/ after_model("A")
    \/ wrap_tool_call("A")

\* there is room within MaxMsgs for the longest turn thread t can start: the
\* human message, then assistant messages of one tool call each and their
\* results, until the dispatch that reaches max_calls
Room(t) ==
    LET left == max_calls - 1 - count_tool_calls(history[t])
    IN  Len(history[t]) + 2 * (IF left > 1 THEN left ELSE 1) <= MaxMsgs

\* a human message arrives for thread A, served alone
StartTurnAlone ==
    /\ Room("A")
    /\ StartTurn("A")

LNext ==
    \/ StartTurnAlone
    \/ TurnStep

\* thread A's turns, each step of a started turn taken in the end: the model
\* call and the tool handlers return
SpecTurn == GInit /\ [][LNext]_vars /\ WF_vars(TurnStep)

(***************************************************************************)
(* Checkpointer life cycle: init_checkpointer, close_checkpointer and the  *)
(* startup and shutdown of main.py.  A call of init_checkpointer runs up   *)
(* to its next await in one step.                                          *)
(***************************************************************************)
\* init_checkpointer that makes a saver on every call, cached one or not
init_branch_no_cache(url, cp, done) ==
    IF ~url THEN "raise"
    ELSE "create"

\* init_checkpointer up to its first await: what the call does next
init_branch(url, cp, done) ==
    IF ~url THEN "raise"
    ELSE IF cp = 0 THEN "create"
    ELSE IF ~done THEN "setup"
    ELSE "return"

\* the try/except around setup(): the flag and whether the call raises, for
\* setup() returning ("ok"), raising with 'already exists' in its text
\* ("exists") and raising anything else ("other")
setup_result(outcome) ==
    IF outcome = "ok" THEN [setup_done |-> TRUE, raised |-> FALSE]
    ELSE IF outcome = "exists" THEN [setup_done |-> TRUE, raised |-> FALSE]
    ELSE [setup_done |-> TRUE, raised |-> FALSE]

\* close_checkpointer without the except and finally clauses: an __aexit__
\* that raises leaves the globals as they are and the exception goes up
close_no_finally(aexit_raised) ==
    IF aexit_raised
    THEN [checkpointer |-> checkpointer, context_manager |-> context_manager,
          setup_done |-> setup_done, raised |-> TRUE]
    ELSE [checkpointer |-> 0, context_manager |-> 0, setup_done |-> FALSE,
          raised |-> FALSE]

\* the try/except/finally around __aexit__: the module globals and whether
\* close_checkpointer raises, for __aexit__ returning or raising
close_result(aexit_raised) ==
    [checkpointer |-> 0, context_manager |-> 0, setup_done |-> FALSE,
     raised |-> FALSE]

\* some call of init_checkpointer is at an await
InFlight == \E c \in Calls : call[c].pc \in {"enter", "setup"}

CInit ==
    /\ database_url \in BOOLEAN
    /\ concurrent \in BOOLEAN
    /\ checkpointer = 0
    /\ context_manager = 0
    /\ setup_done = FALSE
    /\ ctx = [c \in Calls |-> "none"]
    /\ call = [c \in Calls |-> IdleCall]
    /\ main_pc = "load"
    /\ agent_checkpointer = 0
    /\ turns = 0
    /\ close_log = NoClose
    \* no tool has been called
    /\ user_profiles = NoRow
    /\ saved_jobs = [j \in Jobs |-> "none"]
    /\ written = 0
    /\ tool_result = NoTool
    \* no turn runs yet: governor and compactor as constructed
    /\ max_calls = 1
    /\ warn_at_percentage = 80
    /\ current_thread = NoThread
    /\ call_count = 0
    /\ warned = FALSE
    /\ history = [t \in Threads |-> <<>>]
    /\ pc = [t \in Threads |-> "idle"]
    /\ pending = [t \in Threads |-> <<>>]
    /\ last = NoOp
    /\ warnings = [t \in Threads |-> 0]
    /\ max_tokens = 0
    /\ keep_system_message = TRUE
    /\ keep_recent_messages = 0
    /\ messages = <<>>
    /\ sm_update = None

\* call c of init_checkpointer starts and runs to its first await, to its
\* return or to its raise.  Call 1 is the one of main.py's module load; a
\* sequential caller calls when no other call is at an await.
InitStart(c) ==
    /\ call[c].pc = "idle"
    /\ \A d \in 1..(c - 1) : call[d].pc # "idle"
    /\ main_pc # "closed"
    /\ concurrent \/ (~InFlight /\ main_pc # "closing")
    /\ LET b == init_branch(database_url, checkpointer, setup_done) IN
        /\ call' = [call EXCEPT ![c] =
              IF b = "raise" THEN [@ EXCEPT !.pc = "raised", !.via = "init"]
              ELSE IF b = "create"
                   THEN [@ EXCEPT !.pc = "enter", !.via = "init",
                                  !.created = TRUE]
              ELSE IF b = "setup"
                   THEN [@ EXCEPT !.pc = "setup", !.via = "init",
                                  !.saver = checkpointer]
              ELSE [@ EXCEPT !.pc = "returned", !.via = "init",
                             !.result = checkpointer]]
        /\ context_manager' = IF b = "create" THEN c ELSE context_manager
        /\ ctx' = IF b = "create" THEN [ctx EXCEPT ![c] = "created"] ELSE ctx
    /\ UNCHANGED <<database_url, concurrent, checkpointer, setup_done, main_pc,
                   agent_checkpointer, turns, close_log>>
    /\ UNCHANGED <<gvars, tvars, ovars>>

\* call c is a call of get_checkpointer: it returns the cached saver when
\* there is one, and else goes into init_checkpointer.  The call of main.py's
\* module load is a call of init_checkpointer.
GetStart(c) ==
    /\ c > 1
    /\ call[c].pc = "idle"
    /\ \A d \in 1..(c - 1) : call[d].pc # "idle"
    /\ main_pc # "closed"
    /\ concurrent \/ (~InFlight /\ main_pc # "closing")
    /\ LET b == IF checkpointer # 0 THEN "return"
                ELSE init_branch(database_url, checkpointer, setup_done)
       IN
        /\ call' = [call EXCEPT ![c] =
              IF b = "raise" THEN [@ EXCEPT !.pc = "raised", !.via = "get"]
              ELSE IF b = "create"
                   THEN [@ EXCEPT !.pc = "enter", !.via = "get",
                                  !.created = TRUE]
              ELSE [@ EXCEPT !.pc = "returned", !.via = "get",
                             !.result = checkpointer]]
        /\ context_manager' = IF b = "create" THEN c ELSE context_manager
        /\ ctx' = IF b = "create" THEN [ctx EXCEPT ![c] = "created"] ELSE ctx
    /\ UNCHANGED <<database_url, concurrent, checkpointer, setup_done, main_pc,
                   agent_checkpointer, turns, close_log>>
    /\ UNCHANGED <<gvars, tvars, ovars>>

\* await _context_manager.__aenter__() of call c ends: the connection is
\* made and the saver cached, or the connection fails and the call raises
InitEntered(c, ok) ==
    /\ call[c].pc = "enter"
    /\ IF ok
       THEN /\ ctx' = [ctx EXCEPT ![c] = "entered"]
            /\ checkpointer' = c
            /\ call' = [call EXCEPT ![c] =
                  IF ~setup_done
                  THEN [@ EXCEPT !.pc = "setup", !.saver = c]
                  ELSE [@ EXCEPT !.pc = "returned", !.result = c]]
       ELSE /\ ctx' = [ctx EXCEPT ![c] = "failed"]
            /\ call' = [call EXCEPT ![c].pc = "raised"]
            /\ UNCHANGED checkpointer
    /\ UNCHANGED <<database_url, concurrent, context_manager, setup_done,
                   main_pc, agent_checkpointer, turns, close_log>>
    /\ UNCHANGED <<gvars, tvars, ovars>>

\* await _checkpointer.setup() of call c ends
InitSetup(c, outcome) ==
    /\ call[c].pc = "setup"
    /\ outcome = "ok" => ctx[call[c].saver] = "entered"
    /\ LET r == setup_result(outcome) IN
        /\ setup_done' = r.setup_done
        /\ call' = [call EXCEPT ![c] =
              IF r.raised THEN [@ EXCEPT !.pc = "raised", !.setup = outcome]
              ELSE [@ EXCEPT !.pc = "returned", !.setup = outcome,
                             !.result = checkpointer]]
    /\ UNCHANGED <<database_url, concurrent, checkpointer, context_manager,
                   ctx, main_pc, agent_checkpointer, turns, close_log>>
    /\ UNCHANGED <<gvars, tvars, ovars>>

\* main.py's try/except around _init_checkpointer_sync(): what the module
\* load does once the call has returned or raised
load_after_init(raised) == IF raised THEN "build" ELSE "build"

\* main.py goes on from the init call of its module load to build_agent,
\* which takes get_sync_checkpointer(), and the app is served
MainBuild ==
    /\ main_pc = "load"
    /\ call[1].pc \in {"returned", "raised"}
    /\ load_after_init(call[1].pc = "raised") = "build"
    /\ agent_checkpointer' = checkpointer
    /\ main_pc' = "serving"
    /\ UNCHANGED <<database_url, concurrent, checkpointer, context_manager,
                   setup_done, ctx, call, turns, close_log>>
    /\ UNCHANGED <<gvars, tvars, ovars>>

\* the served agent accepts a turn
AcceptTurn ==
    /\ main_pc = "serving"
    /\ turns < MaxTurns
    /\ turns' = turns + 1
    /\ UNCHANGED <<database_url, concurrent, checkpointer, context_manager,
                   setup_done, ctx, call, main_pc, agent_checkpointer,
                   close_log>>
    /\ UNCHANGED <<gvars, tvars, ovars>>

\* lifespan shutdown calls close_checkpointer, which returns at once without
\* a context manager and else awaits its __aexit__
CloseStart ==
    /\ main_pc = "serving"
    /\ concurrent \/ ~InFlight
    /\ IF context_manager = 0
       THEN /\ main_pc' = "closed"
            /\ close_log' = NoClose
       ELSE /\ main_pc' = "closing"
            /\ close_log' = [NoClose EXCEPT !.target = context_manager]
    /\ UNCHANGED <<database_url, concurrent, checkpointer, context_manager,
                   setup_done, ctx, call, agent_checkpointer, turns>>
    /\ UNCHANGED <<gvars, tvars, ovars>>

\* await _context_manager.__aexit__(None, None, None) ends and
\* close_checkpointer runs to its end
CloseFinish(aexit_raised) ==
    /\ main_pc = "closing"
    /\ ~aexit_raised => ctx[close_log.target] \in {"entered", "failed"}
    /\ LET r == close_result(aexit_raised) IN
        /\ checkpointer' = r.checkpointer
        /\ context_manager' = r.context_manager
        /\ setup_done' = r.setup_done
        /\ close_log' = [close_log EXCEPT
                            !.aexit = IF aexit_raised THEN "error" ELSE "ok",
                            !.raised = r.raised]
    /\ ctx' = IF ~aexit_raised /\ ctx[close_log.target] = "entered"
              THEN [ctx EXCEPT ![close_log.target] = "exited"]
              ELSE ctx
    /\ main_pc' = "closed"
    /\ UNCHANGED <<database_url, concurrent, call, agent_checkpointer, turns>>
    /\ UNCHANGED <<gvars, tvars, ovars>>

\* how setup() ends
SetupOutcomes == {"ok", "exists", "other"}

CNext ==
    \/ \E c \in Calls : InitStart(c)
    \/ \E c \in Calls : GetStart(c)
    \/ \E c \in Calls, ok \in BOOLEAN : InitEntered(c, ok)
    \/ \E c \in Calls, outcome \in SetupOutcomes : InitSetup(c, outcome)
    \/ MainBuild
    \/ AcceptTurn
    \/ CloseStart
    \/ \E aexit_raised \in BOOLEAN : CloseFinish(aexit_raised)

SpecCkpt == CInit /\ [][CNext]_vars

(***************************************************************************)
(* Onboarding tools over table user_profiles.  One user, "u1"; the row      *)
(* holds the columns get_profile_status derives the step from.              *)
(***************************************************************************)
Roles == {"cto", "ceo"}

VALID_ROLES == {"cto", "cfo", "cmo", "coo", "cpo", "other"}

EngagementTypes == {"fractional", "weekly"}

VALID_TRINITY == {"fractional", "interim", "advisory", "open"}

Years == {0, 5}

\* location after strip(): a whitespace-only location is the empty string
Locations == {"", "London"}

RemotePreferences == {"remote", "office"}

VALID_REMOTE == {"remote", "hybrid", "onsite", "flexible"}

DayRates == {0, 500}

Availabilities == {"flexible", "never"}

VALID_AVAILABILITY == {"immediately", "1_month", "3_months", "flexible"}

\* _get_neon_client: NeonClient() raises without DATABASE_URL and the tools
\* get None
neon_client == database_url

\* Python truth value of a text column read from the row
Truthy(v) == v # NULL /\ v # ""

\* NeonClient.upsert_profile on the user's row: INSERT ... ON CONFLICT DO
\* UPDATE sets the given columns and leaves the others
upsert_profile(row, fields) ==
    [c \in DOMAIN row |->
        IF c = "user_id" THEN "u1"
        ELSE IF c \in DOMAIN fields THEN fields[c]
        ELSE row[c]]

\* the step get_profile_status derives from a row
derived_step(row) ==
    LET s1 == IF Truthy(row.role_preference) THEN 1 ELSE 0
        s2 == IF Truthy(row.trinity) THEN 2 ELSE s1
        s3 == IF row.experience_years # NullInt THEN 3 ELSE s2
        s4 == IF Truthy(row.location) THEN 4 ELSE s3
        s5 == IF row.day_rate_min # NullInt THEN 5 ELSE s4
    IN  IF row.onboarding_completed THEN 6 ELSE s5

\* the envelope of get_profile_status
profile_status(client, read_ok, row) ==
    IF ~client \/ ~read_ok
    THEN [NoTool EXCEPT !.tool = "get_profile_status", !.user_id = TRUE,
                        !.failed = client, !.current_step = 0]
    ELSE IF row.user_id = "none"
    THEN [NoTool EXCEPT !.tool = "get_profile_status", !.user_id = TRUE,
                        !.success = TRUE, !.current_step = 0]
    ELSE [NoTool EXCEPT !.tool = "get_profile_status", !.user_id = TRUE,
                        !.success = TRUE,
                        !.current_step = derived_step(row),
                        !.onboarding_completed = row.onboarding_completed,
                        !.wanted = row]

\* a confirm tool whose write is awaited inside try/except: the write counts
\* only when a user_id was given, a client is there and the update did not
\* raise; the envelope does not depend on it
persisted(valid, user_id, write_ok) ==
    valid /\ user_id /\ neon_client /\ write_ok

confirm(tool_name, valid, user_id, write_ok, fields, step) ==
    LET done == persisted(valid, user_id, write_ok)
        target == upsert_profile(user_profiles, fields)
    IN  [row |-> IF done THEN target ELSE user_profiles,
         written |-> IF ~done \/ step = written THEN written
                     ELSE IF written = step - 1 THEN step
                     ELSE -1,
         envelope |->
              [NoTool EXCEPT
                  !.tool = tool_name,
                  !.user_id = user_id,
                  !.success = valid,
                  !.failed = valid /\ user_id /\ ~done,
                  !.current_step = IF valid THEN step ELSE -1,
                  !.wanted = IF valid /\ user_id THEN target
                             ELSE user_profiles]]

get_profile_status(read_ok) ==
    /\ tool_result' = profile_status(neon_client, read_ok, user_profiles)
    /\ UNCHANGED <<user_profiles, saved_jobs, written>>
    /\ UNCHANGED <<gvars, tvars, cvars>>

confirm_role_preference(role, user_id, write_ok) ==
    LET r == confirm("confirm_role_preference", role \in VALID_ROLES, user_id,
                     write_ok, [role_preference |-> role], 1)
    IN  /\ user_profiles' = r.row
        /\ written' = r.written
        /\ tool_result' = r.envelope
        /\ UNCHANGED saved_jobs
        /\ UNCHANGED <<gvars, tvars, cvars>>

confirm_trinity(engagement_type, user_id, write_ok) ==
    LET r == confirm("confirm_trinity", engagement_type \in VALID_TRINITY,
                     user_id, write_ok, [trinity |-> engagement_type], 2)
    IN  /\ user_profiles' = r.row
        /\ written' = r.written
        /\ tool_result' = r.envelope
        /\ UNCHANGED saved_jobs
        /\ UNCHANGED <<gvars, tvars, cvars>>

confirm_experience(years, user_id, write_ok) ==
    LET r == confirm("confirm_experience", ~(years < 0), user_id, write_ok,
                     [experience_years |-> years], 3)
    IN  /\ user_profiles' = r.row
        /\ written' = r.written
        /\ tool_result' = r.envelope
        /\ UNCHANGED saved_jobs
        /\ UNCHANGED <<gvars, tvars, cvars>>

confirm_location(location, remote_preference, user_id, write_ok) ==
    LET r == confirm("confirm_location", remote_preference \in VALID_REMOTE,
                     user_id, write_ok, [location |-> location], 4)
    IN  /\ user_profiles' = r.row
        /\ written' = r.written
        /\ tool_result' = r.envelope
        /\ UNCHANGED saved_jobs
        /\ UNCHANGED <<gvars, tvars, cvars>>

confirm_search_prefs(day_rate_min, day_rate_max, availability, user_id, write_ok) ==
    LET r == confirm("confirm_search_prefs",
                     availability \in VALID_AVAILABILITY
                        /\ ~(day_rate_min > day_rate_max),
                     user_id, write_ok, [day_rate_min |-> day_rate_min], 5)
    IN  /\ user_profiles' = r.row
        /\ written' = r.written
        /\ tool_result' = r.envelope
        /\ UNCHANGED saved_jobs
        /\ UNCHANGED <<gvars, tvars, cvars>>

complete_onboarding(user_id, write_ok) ==
    LET r == confirm("complete_onboarding", TRUE, user_id, write_ok,
                     [onboarding_completed |-> TRUE], 6)
    IN  /\ user_profiles' = r.row
        /\ written' = r.written
        /\ tool_result' = r.envelope
        /\ UNCHANGED saved_jobs
        /\ UNCHANGED <<gvars, tvars, cvars>>

ConfirmTools == {"confirm_role_preference", "confirm_trinity",
                 "confirm_experience", "confirm_location",
                 "confirm_search_prefs", "complete_onboarding"}

(***************************************************************************)
(* Job tools, which run the store's coroutines through _run_async.          *)
(***************************************************************************)
\* what a store coroutine gives: None, or rows (the ids of the jobs in them)
NoneResult == [none |-> TRUE, rows |-> {}]

Some(rows) == [none |-> FALSE, rows |-> rows]

\* how running a coroutine ends: it returns; it raises; future.result gives up
\* after 10 s and the coroutine does not complete; it gives up and the
\* coroutine completes while the executor shuts down
RunOutcomes == {"ok", "raised", "timeout", "late"}

\* _run_async: every exception, TimeoutError included, becomes None
run_async(outcome, value) == IF outcome = "ok" THEN value ELSE NoneResult

\* the coroutine's statement reached the database
Landed(outcome) == outcome \in {"ok", "late"}

JobIds == 1..(MaxJobs + 1)

SaveStatuses == {"applied", "archived"}

VALID_SAVE_STATUS == {"saved", "applied", "interviewing", "rejected", "accepted"}

\* NeonClient.get_profile, match_jobs_to_profile, save_job (which catches its
\* own exceptions), get_saved_jobs, update_saved_job_status
neon_get_profile ==
    IF user_profiles.user_id = "none" THEN NoneResult ELSE Some({})

neon_search_jobs == Some(Jobs)

neon_match_jobs_to_profile ==
    IF user_profiles.user_id = "none" THEN Some({}) ELSE Some(Jobs)

neon_save_job(job_id) ==
    IF job_id \in Jobs THEN Some({job_id}) ELSE NoneResult

neon_get_saved_jobs == Some({j \in Jobs : saved_jobs[j] # "none"})

neon_update_saved_job_status(job_id) ==
    IF job_id \in Jobs /\ saved_jobs[job_id] # "none"
    THEN Some({job_id}) ELSE NoneResult

\* the envelope of a job tool
JobEnvelope(tool_name, success, failed, count) ==
    [NoTool EXCEPT !.tool = tool_name, !.success = success,
                   !.failed = failed, !.count = count]

\* a listing tool: None from _run_async is replaced by the empty list
listing(tool_name, outcome, value) ==
    IF ~neon_client
    THEN JobEnvelope(tool_name, FALSE, FALSE, -1)
    ELSE LET jobs == run_async(outcome, value)
         IN  JobEnvelope(tool_name, TRUE, outcome # "ok",
                         Cardinality(jobs.rows))

search_jobs(outcome) ==
    /\ tool_result' = listing("search_jobs", outcome, neon_search_jobs)
    /\ UNCHANGED <<user_profiles, saved_jobs, written>>
    /\ UNCHANGED <<gvars, tvars, cvars>>

get_saved_jobs(outcome) ==
    /\ tool_result' = listing("get_saved_jobs", outcome, neon_get_saved_jobs)
    /\ UNCHANGED <<user_profiles, saved_jobs, written>>
    /\ UNCHANGED <<gvars, tvars, cvars>>

match_jobs(profile_outcome, match_outcome) ==
    /\ tool_result' =
          IF ~neon_client
          THEN JobEnvelope("match_jobs", FALSE, FALSE, -1)
          ELSE LET profile == run_async(profile_outcome, neon_get_profile)
                   matches == run_async(match_outcome,
                                        neon_match_jobs_to_profile)
               IN  IF profile.none
                   THEN JobEnvelope("match_jobs", FALSE,
                                    profile_outcome # "ok", -1)
                   ELSE JobEnvelope("match_jobs", TRUE, match_outcome # "ok",
                                    Cardinality(matches.rows))
    /\ UNCHANGED <<user_profiles, saved_jobs, written>>
    /\ UNCHANGED <<gvars, tvars, cvars>>

save_job(job_id, outcome) ==
    /\ IF ~neon_client
       THEN /\ tool_result' = JobEnvelope("save_job", FALSE, FALSE, -1)
            /\ UNCHANGED saved_jobs
       ELSE LET stored == neon_save_job(job_id)
                result == run_async(outcome, stored)
            IN  /\ tool_result' = JobEnvelope("save_job", ~result.none,
                                              outcome # "ok", -1)
                /\ saved_jobs' =
                      IF Landed(outcome) /\ ~stored.none
                         /\ saved_jobs[job_id] = "none"
                      THEN [saved_jobs EXCEPT ![job_id] = "saved"]
                      ELSE saved_jobs
    /\ UNCHANGED <<user_profiles, written>>
    /\ UNCHANGED <<gvars, tvars, cvars>>

update_job_status(job_id, status, outcome) ==
    /\ IF status \notin VALID_SAVE_STATUS \/ ~neon_client
       THEN /\ tool_result' = JobEnvelope("update_job_status", FALSE, FALSE, -1)
            /\ UNCHANGED saved_jobs
       ELSE LET stored == neon_update_saved_job_status(job_id)
                result == run_async(outcome, stored)
            IN  /\ tool_result' = JobEnvelope("update_job_status",
                                              ~result.none, outcome # "ok", -1)
                /\ saved_jobs' =
                      IF Landed(outcome) /\ ~stored.none
                      THEN [saved_jobs EXCEPT ![job_id] = status]
                      ELSE saved_jobs
    /\ UNCHANGED <<user_profiles, written>>
    /\ UNCHANGED <<gvars, tvars, cvars>>

JobTools == {"search_jobs", "match_jobs", "get_saved_jobs", "save_job",
             "update_job_status"}

\* a process with or without DATABASE_URL, no row for the user, nothing saved
OInit ==
    /\ database_url \in BOOLEAN
    /\ user_profiles = NoRow
    /\ saved_jobs = [j \in Jobs |-> "none"]
    /\ written = 0
    /\ tool_result = NoTool
    \* the governor, the compactor and the checkpointer stay as constructed
    /\ max_calls = 1
    /\ warn_at_percentage = 80
    /\ current_thread = NoThread
    /\ call_count = 0
    /\ warned = FALSE
    /\ history = [t \in Threads |-> <<>>]
    /\ pc = [t \in Threads |-> "idle"]
    /\ pending = [t \in Threads |-> <<>>]
    /\ last = NoOp
    /\ warnings = [t \in Threads |-> 0]
    /\ max_tokens = 0
    /\ keep_system_message = TRUE
    /\ keep_recent_messages = 0
    /\ messages = <<>>
    /\ sm_update = None
    /\ concurrent = FALSE
    /\ checkpointer = 0
    /\ context_manager = 0
    /\ setup_done = FALSE
    /\ ctx = [c \in Calls |-> "none"]
    /\ call = [c \in Calls |-> IdleCall]
    /\ main_pc = "load"
    /\ agent_checkpointer = 0
    /\ turns = 0
    /\ close_log = NoClose

ONext ==
    \/ \E read_ok \in BOOLEAN : get_profile_status(read_ok)
    \/ \E role \in Roles, user_id \in BOOLEAN, write_ok \in BOOLEAN :
          confirm_role_preference(role, user_id, write_ok)
    \/ \E engagement_type \in EngagementTypes, user_id \in BOOLEAN,
          write_ok \in BOOLEAN :
          confirm_trinity(engagement_type, user_id, write_ok)
    \/ \E years \in Years, user_id \in BOOLEAN, write_ok \in BOOLEAN :
          confirm_experience(years, user_id, write_ok)
    \/ \E location \in Locations, remote_preference \in RemotePreferences,
          user_id \in BOOLEAN, write_ok \in BOOLEAN :
          confirm_location(location, remote_preference, user_id, write_ok)
    \/ \E day_rate_min \in DayRates, day_rate_max \in DayRates,
          availability \in Availabilities, user_id \in BOOLEAN,
          write_ok \in BOOLEAN :
          confirm_search_prefs(day_rate_min, day_rate_max, availability,
                               user_id, write_ok)
    \/ \E user_id \in BOOLEAN, write_ok \in BOOLEAN :
          complete_onboarding(user_id, write_ok)
    \/ \E outcome \in RunOutcomes : search_jobs(outcome)
    \/ \E profile_outcome \in RunOutcomes, match_outcome \in RunOutcomes :
          match_jobs(profile_outcome, match_outcome)
    \/ \E job_id \in JobIds, outcome \in RunOutcomes : save_job(job_id, outcome)
    \/ \E outcome \in RunOutcomes : get_saved_jobs(outcome)
    \/ \E job_id \in JobIds, status \in SaveStatuses, outcome \in RunOutcomes :
          update_job_status(job_id, status, outcome)

SpecTools == OInit /\ [][ONext]_vars

(***************************************************************************)
(* Properties of the governor                                              *)
(***************************************************************************)
Hooks == {"before_model", "after_model", "wrap_tool_call"}

\* tool handler executions of a thread: each appended one tool message
RECURSIVE tool_results(_)
tool_results(msgs) ==
    IF msgs = <<>> THEN 0
    ELSE (IF Head(msgs).type = "tool" THEN 1 ELSE 0)
         + tool_results(Tail(msgs))

\* tool msgs at the end of a history: the dispatches of the turn in progress
RECURSIVE trailing_tool_results(_)
trailing_tool_results(msgs) ==
    IF msgs = <<>> \/ msgs[Len(msgs)].type # "tool" THEN 0
    ELSE 1 + trailing_tool_results(SubSeq(msgs, 1, Len(msgs) - 1))

\* no other thread than t has started a turn
OnlyThread(t) == \A u \in Threads \ {t} : history[u] = <<>>

\* C1 (as claimed): on a thread served alone, starting from a count of zero,
\* no dispatch attempt among the first max_calls is rejected, and no more than
\* max_calls dispatches are executed.  A rejection within the first max_calls
\* attempts is one made while fewer than max_calls dispatches were executed.
C1_Claim ==
    \A t \in Threads :
        OnlyThread(t) /\ max_calls >= 2 =>
            /\ tool_results(history[t]) <= max_calls
            /\ (last.op = "wrap_tool_call" /\ last.thread = t /\ last.raised
                    => tool_results(history[t]) >= max_calls)

\* C2: before_model leaves the counter equal to the number of tool-call
\* requests in the thread's history, raises exactly when that number is at
\* least max_calls, and the model is invoked for the turn only if it did not
\* raise.
C2_BeforeModel ==
    last.op = "before_model" =>
        LET n == count_tool_calls(history[last.thread]) IN
        /\ call_count = n
        /\ last.raised <=> n >= max_calls
        /\ pc[last.thread] = IF last.raised THEN "error" ELSE "model"

C2_Witness ==
    /\ last.op = "before_model"
    /\ last.raised
    /\ max_calls >= 2
    /\ count_tool_calls(history[last.thread]) >= max_calls

\* C3 (as claimed): on a thread served alone, after every hook call the
\* counter equals the number of tool-call requests in the thread's history.
C3_Claim ==
    \A t \in Threads :
        OnlyThread(t) /\ last.op \in Hooks /\ last.thread = t
            => call_count = count_tool_calls(history[t])

\* C4 (as claimed): the warning is printed at most once per thread (stated
\* for the governors whose warning threshold is at least one call).
C4_Claim == warn_threshold >= 1 => \A t \in Threads : warnings[t] <= 1

\* ceil(max_calls * warn_at_percentage / 100)
CeilThreshold == (max_calls * warn_at_percentage + 99) \div 100

\* C5 (as claimed): on a thread served alone, with max_calls at least two, the
\* warning is printed only with
\* the counter at or above ceil(max_calls * warn_at_percentage / 100), and a
\* before_model or a tool dispatch that leaves the counter at or above it has
\* printed the warning or finds it printed.
C5_Claim ==
    \A t \in Threads :
        OnlyThread(t) /\ max_calls >= 2 /\ last.op \in Hooks /\ last.thread = t =>
            /\ last.warning => call_count >= CeilThreshold
            /\ last.op # "after_model" /\ call_count >= CeilThreshold
                   => warnings[t] >= 1

\* C6: a before_model that finds the governor on another thread leaves the
\* governor on the new thread with the counter and the raise decided by the
\* new thread's history alone and the warned flag as a fresh flag would be:
\* set, with the warning printed, exactly when that history reaches the
\* warning threshold.
C6_ThreadSwitch ==
    last.op = "before_model" /\ last.prev # last.thread =>
        LET n == count_tool_calls(history[last.thread]) IN
        /\ current_thread = last.thread
        /\ call_count = n
        /\ warned = (n >= warn_threshold)
        /\ last.warning = (n >= warn_threshold)
        /\ last.raised = (n >= max_calls)

C6_Witness ==
    /\ last.op = "before_model"
    /\ last.prev \in Threads \ {last.thread}
    /\ last.prev_warned
    /\ count_tool_calls(history[last.prev]) > count_tool_calls(history[last.thread])
    /\ ~warned
    /\ ~last.raised

\* C7 (as claimed): a dispatch of thread t is rejected only when t's own count
\* reaches max_calls: the tool-call requests of t's history plus the
\* dispatches of t's turn so far, this one included.
C7_Claim ==
    last.op = "wrap_tool_call" =>
        LET t == last.thread
            own == count_tool_calls(history[t])
                   + trailing_tool_results(history[t])
                   + 1
        IN  last.raised => own >= max_calls

\* C8: in every state, before_model on a thread's history gives the same
\* counter and the same raise from the governor as it stands and from a newly
\* constructed one, both determined by the number of tool-call requests in the
\* history; and the before_model calls made agree with it.
C8_Restart ==
    /\ \A t \in Threads :
          LET n == count_tool_calls(history[t])
              long == check_limit(Gov, t, history[t])
              fresh == check_limit(FreshGov, t, history[t])
          IN  /\ long.gov.call_count = n
              /\ fresh.gov.call_count = n
              /\ long.raised = (n >= max_calls)
              /\ fresh.raised = (n >= max_calls)
    /\ last.op = "before_model" =>
          /\ call_count = count_tool_calls(history[last.thread])
          /\ last.raised = check_limit(FreshGov, last.thread,
                                       history[last.thread]).raised

\* a restarted governor raises on the history the thread accumulated before
\* the restart
C8_Witness ==
    /\ last.op = "before_model"
    /\ last.prev = NoThread
    /\ last.raised
    /\ max_calls >= 2
    /\ count_tool_calls(history[last.thread]) >= max_calls

(***************************************************************************)
(* Properties of the compactor                                             *)
(***************************************************************************)
\* every tool message of view follows an assistant message of view that
\* carries its call id
Paired(view) ==
    \A i \in 1..Len(view) :
        view[i].type = "tool" =>
            \E j \in 1..(i - 1) :
                /\ view[j].type = "ai"
                /\ \E k \in 1..Len(view[j].tool_calls) :
                       view[j].tool_calls[k].id = view[i].tool_call_id

\* C9 (as claimed): the output of _trim_messages never holds a tool result
\* without the assistant message that requested it before it.
C9_Claim == BeforeModelInput => Paired(trim(messages))

\* view is a suffix of msgs, after the leading system message of msgs if
\* there is one
IsSuffixWithSystem(view, msgs) ==
    \/ \E k \in 0..Len(msgs) : view = LastK(msgs, k)
    \/ /\ msgs # <<>>
       /\ msgs[1].type = "system"
       /\ \E k \in 0..(Len(msgs) - 1) : view = <<msgs[1]>> \o LastK(msgs, k)

\* the messages of view after its leading system message
NonSystem(view) ==
    IF view # <<>> /\ view[1].type = "system" THEN Tail(view) ELSE view

\* C10 (as claimed): the output of _trim_messages is a suffix of the history, after the
\* leading system message if any, and its token cost over the whole view is
\* at most max_tokens or it keeps exactly keep_recent_messages messages.
C10_Claim ==
    BeforeModelInput =>
        LET view == trim(messages) IN
        /\ IsSuffixWithSystem(view, messages)
        /\ \/ count_tokens_approximately(view) <= max_tokens
           \/ Len(NonSystem(view)) = keep_recent_messages
           \/ Len(view) = keep_recent_messages

UpdateKeys(u) == DOMAIN u \ {"update"}

\* C12: a step of the compactor's before_model that returns an update leaves
\* the history as it was, and the update writes llm_input_messages alone, the
\* trimmed view; any other step of before_model returns no update and changes
\* nothing.
C12_Frame ==
    [][sm_update' # None =>
          /\ messages' = messages
          /\ UpdateKeys(sm_update') = {"llm_input_messages"}
          /\ sm_update'.llm_input_messages = trim(messages')
          /\ Len(sm_update'.llm_input_messages) < Len(messages')]_vars

\* before_model returned a view shorter than the history, which stands
C12_Witness ==
    /\ sm_update.update
    /\ UpdateKeys(sm_update) = {"llm_input_messages"}
    /\ Len(messages) >= 3
    /\ Len(sm_update.llm_input_messages) < Len(messages)
    /\ sm_update.llm_input_messages # <<>>

\* the history is over the budget and begins with a system message
OverBudgetWithSystem ==
    /\ messages # <<>>
    /\ count_tokens_approximately(messages) > max_tokens
    /\ messages[1].type = "system"

\* the view begins with the history's system message, and the rest of it is
\* empty, or costs at most the budget less the system message's cost, or is
\* the recency floor
SystemKept(view) ==
    /\ view # <<>>
    /\ view[1] = messages[1]
    /\ \/ Tail(view) = <<>>
       \/ count_tokens_approximately(Tail(view))
             <= max_tokens - count_tokens_approximately(<<messages[1]>>)
       \/ /\ Len(Tail(messages)) >= keep_recent_messages
          /\ Tail(view) = LastK(Tail(messages), keep_recent_messages)

Min(a, b) == IF a <= b THEN a ELSE b

\* the suffix of the non-system messages that trim_messages fits into the
\* budget left by the system message
FittingSuffix ==
    IF messages[1].type = "system"
    THEN trim_messages(Tail(messages),
                       max_tokens - count_tokens_approximately(<<messages[1]>>))
    ELSE trim_messages(messages, max_tokens)

\* C14 (as claimed): for a compactor that keeps the system message, whenever
\* the history is over the budget and the budget-fitting suffix has fewer
\* than keep_recent_messages messages, the non-system part of the trimmed
\* view is exactly the last keep_recent_messages non-system messages of the
\* history (all of them when there are fewer).
C14_Claim ==
    /\ BeforeModelInput
    /\ keep_system_message
    /\ count_tokens_approximately(messages) > max_tokens
    /\ Len(FittingSuffix) < keep_recent_messages
    => LET rest == NonSystem(messages) IN
       NonSystem(trim(messages))
           = LastK(rest, Min(keep_recent_messages, Len(rest)))

(***************************************************************************)
(* Properties of the checkpointer life cycle                               *)
(***************************************************************************)
\* C15 (as claimed): the agent is built and served only after the init call
\* of the module load has returned a checkpointer, and it accepts a turn only
\* with the checkpointer it was built with not None.
C15_Claim ==
    /\ main_pc # "load" => call[1].pc = "returned" /\ agent_checkpointer # 0
    /\ turns > 0 => agent_checkpointer # 0

\* call c of init_checkpointer met a failure other than 'already exists':
\* it raised (no DATABASE_URL, or the connection failed), or its setup()
\* raised another error
InitFailed(c) == call[c].pc = "raised" \/ call[c].setup = "other"

\* C16 (as claimed): when the init call of the module load, the only call
\* made, fails for a reason other than 'already exists', the failure
\* propagates out of init_checkpointer, the store is not marked as set up,
\* and the startup does not go on to build and serve the agent.
C16_Claim ==
    InitFailed(1) /\ (\A d \in Calls \ {1} : call[d].pc = "idle") =>
        /\ call[1].pc = "raised"
        /\ ~setup_done
        /\ main_pc = "load"

\* C17: with calls made one after the other, a call made after a call that
\* returned, with no close between, creates no connection context, runs no
\* setup(), and returns the same saver, the one whose context is still the
\* cached one; and a call whose setup() raised 'already exists' returns the
\* saver with the store marked as set up.
C17_Idempotent ==
    ~concurrent =>
        /\ \A d \in Calls : \A c \in Calls :
              d < c /\ call[d].pc = "returned" /\ call[c].pc # "idle" =>
                  /\ call[c].pc = "returned"
                  /\ call[c].result = call[d].result
                  /\ call[c].result # 0
                  /\ ~call[c].created
                  /\ ctx[c] = "none"
                  /\ call[c].setup = "none"
                  /\ main_pc \in {"load", "serving"} =>
                        /\ checkpointer = call[d].result
                        /\ context_manager = call[d].result
        /\ \A c \in Calls :
              call[c].setup = "exists" =>
                  /\ call[c].pc = "returned"
                  /\ call[c].result # 0
                  /\ main_pc \in {"load", "serving"} => setup_done

\* a second call returned the saver of the first, whose setup() had raised
\* 'already exists'
C17_Witness ==
    /\ ~concurrent
    /\ main_pc = "serving"
    /\ call[1].pc = "returned"
    /\ call[1].setup = "exists"
    /\ call[2].pc = "returned"
    /\ call[2].result = call[1].result
    /\ call[2].result # 0
    /\ ~call[2].created

\* C18 (as claimed): when the calls of init_checkpointer overlap at their
\* awaits, and before any close, at most one connection context is created,
\* the cached context manager is the one of the cached saver, setup() returns
\* successfully at most once, and the calls that returned have all returned
\* the same saver, not None.
C18_Claim ==
    concurrent /\ main_pc \in {"load", "serving"} =>
        /\ Cardinality({c \in Calls : ctx[c] # "none"}) <= 1
        /\ checkpointer # 0 => context_manager = checkpointer
        /\ Cardinality({c \in Calls : call[c].setup = "ok"}) <= 1
        /\ \A c \in Calls : \A d \in Calls :
              call[c].pc = "returned" /\ call[d].pc = "returned" =>
                  call[c].result = call[d].result /\ call[c].result # 0

\* C19: close_checkpointer called when no init_checkpointer call is at an
\* await, in whatever state the calls before it left the globals, does not
\* raise, and when it has returned the cached checkpointer and context
\* manager are None and the setup flag is false.
C19_CloseSafe ==
    ~concurrent /\ main_pc = "closed" =>
        /\ ~close_log.raised
        /\ checkpointer = 0
        /\ context_manager = 0
        /\ ~setup_done

\* closed after an init whose setup() failed, with __aexit__ raising
C19_Witness ==
    /\ ~concurrent
    /\ main_pc = "closed"
    /\ close_log.target = 1
    /\ close_log.aexit = "error"
    /\ call[1].setup = "other"
    /\ ctx[1] = "entered"
    /\ checkpointer = 0
    /\ context_manager = 0
    /\ ~setup_done

\* C23: a turn that has started ends, with the final answer (idle) or with
\* the budget-exceeded fault (error), whatever number of tool calls the model
\* requests at each invocation.
C23_Terminates ==
    (pc["A"] \notin {"idle", "error"}) ~> (pc["A"] \in {"idle", "error"})

\* the turn ended by the budget-exceeded fault after the model requested
\* tool calls at every invocation of the turn
C23_Witness ==
    /\ pc["A"] = "error"
    /\ max_calls >= 3
    /\ Len(history["A"]) >= 4
    /\ \A i \in 1..Len(history["A"]) :
          history["A"][i].type = "ai" => history["A"][i].tool_calls # <<>>

\* C24: every model invocation of the built agent went through the governor's
\* before-model check and then through the history compactor: when the model
\* has answered on a thread, the compactor is installed and its input was the
\* history the model call was made on.
C24_Claim ==
    \A t \in Threads :
        pc[t] = "after_model" =>
            /\ Installed("ToolCallLimitMiddleware")
            /\ Installed("SummarizationMiddleware")
            /\ messages = SubSeq(history[t], 1, Len(history[t]) - 1)

\* C25: a wrap_tool_call / awrap_tool_call step increments the counter; when
\* it raises, the handler has not run (no tool result is appended); when it
\* does not raise, the handler has run exactly once (one tool result, for the
\* first pending call) and the incremented counter is strictly below
\* max_calls; the sync and the async variant decide and change the same.
WrapStep(t) ==
    /\ pc[t] = "tools"
    /\ last'.op = "wrap_tool_call"
    /\ last'.thread = t

C25_Wrap ==
    [][\A t \in Threads :
          WrapStep(t) =>
              /\ call_count' = call_count + 1
              /\ last'.raised <=> call_count' >= max_calls
              /\ last'.raised => history' = history
              /\ ~last'.raised =>
                    /\ call_count' < max_calls
                    /\ history' = [history EXCEPT ![t] =
                                     Append(@, ToolMessage(4, Head(pending[t]).id))]
              /\ wrap_check(Gov) = awrap_check(Gov)]_vars

C25_Witness ==
    /\ last.op = "wrap_tool_call"
    /\ last.raised
    /\ last.thread = "A"
    /\ \E i \in 1..Len(history["A"]) : history["A"][i].type = "tool"

\* C29: the budget of a thread is never replenished: from a state where the
\* thread's history holds at least max_calls tool-call requests, every step
\* leaves it holding at least max_calls, every before_model on that thread
\* raises, and no model call is made on that thread.
Exhausted(t) == count_tool_calls(history[t]) >= max_calls

C29_NeverReplenished ==
    [][\A t \in Threads :
          Exhausted(t) =>
              /\ count_tool_calls(history'[t]) >= count_tool_calls(history[t])
              /\ (pc[t] = "before_model" /\ pc'[t] # "before_model")
                    => (last'.raised /\ pc'[t] = "error")
              /\ pc'[t] # "model"
              /\ ~(\E i \in 1..Len(history'[t]) :
                      /\ i > Len(history[t])
                      /\ history'[t][i].type = "ai")]_vars

C29_Witness ==
    /\ last.op = "before_model"
    /\ last.thread = "A"
    /\ last.raised
    /\ \E i \in 2..Len(history["A"]) :
          /\ history["A"][i].type = "human"
          /\ count_tool_calls(SubSeq(history["A"], 1, i - 1)) >= max_calls
    /\ history["B"] # <<>>

(***************************************************************************)
(* Properties of the onboarding and job tools                               *)
(***************************************************************************)
\* C26: when an onboarding confirm tool called with a user_id returns
\* success = true, its write is in the store: the user's row is the row the
\* call was to leave, and a get_profile_status that follows reads that row.
C26_Claim ==
    (tool_result.tool \in ConfirmTools /\ tool_result.user_id
     /\ tool_result.success) =>
        /\ user_profiles = tool_result.wanted
        /\ profile_status(TRUE, TRUE, user_profiles).wanted = tool_result.wanted

\* C27: a job tool whose store operation raised or timed out inside
\* _run_async does not return success = true.
C27_Claim ==
    (tool_result.tool \in JobTools /\ tool_result.failed) => ~tool_result.success

\* C30: when the confirm tools have written the profile in the order of the
\* steps, 1 to k, get_profile_status returns current_step = k, and
\* onboarding_completed exactly when k = 6.
C30_Claim ==
    (tool_result.tool = "get_profile_status" /\ tool_result.success
     /\ written >= 0) =>
        /\ tool_result.current_step = written
        /\ tool_result.onboarding_completed <=> (written = 6)

\* C28: whenever no call of init_checkpointer or get_checkpointer is at an
\* await and no close is under way, whatever calls ran and overlapped before:
\* the cached checkpointer is None exactly when the cached context manager is
\* None, the setup flag is true only while a checkpointer is cached, and no
\* call that returned has returned None.
C28_Claim ==
    (~InFlight /\ main_pc # "closing") =>
        /\ (checkpointer = 0) <=> (context_manager = 0)
        /\ setup_done => checkpointer # 0
        /\ \A c \in Calls : call[c].pc = "returned" => call[c].result # 0

=============================================================================
